---------------------------- MODULE Spec2Model ----------------------------
(***************************************************************************)
(* Model of the repository ingestion pipeline (process_data_source_for_ai), *)
(* the structural index (KnowledgeGraphManager), the semantic index         *)
(* (VectorStoreManager), the documentation synthesizer and the retrieval    *)
(* agent loop of reploit-backend.                                           *)
(***************************************************************************)
EXTENDS Integers, Sequences, FiniteSets, Bags, TLC

VARIABLES
    status,           \* DataSource.status per identity ("absent": no record)
    last_indexed_at,  \* DataSource.last_indexed_at per identity (0: None)
    queue,            \* Celery broker: identities of the tasks not yet started
    kgNodes,          \* structural index: bag of nodes
    kgEdges,          \* structural index: bag of DEFINES relationships
    vec,              \* semantic index: namespace -> set of records
    fs,               \* directories that exist under REPO_CLONE_PATH
    run,              \* per worker: the locals of process_data_source_for_ai
    nruns,            \* number of ingestion tasks started so far
    prev,             \* history: indexes of an identity when its last finalized run exited
    answer,           \* last result of KnowledgeGraphManager.query_graph
    doc,              \* last call of generate_docstrings_in_batch
    agent,            \* AgentState and position of the agent graph
    reader            \* per caller: the locals of read_file_from_repo

vars == <<status, last_indexed_at, queue, kgNodes, kgEdges, vec, fs, run, nruns,
          prev, answer, doc, agent, reader>>

-----------------------------------------------------------------------------
(* Bounds of the model *)

\* ingestion tasks started in one behaviour
MaxRuns == 2
\* depth at which the interpreter stops a recursion (RecursionError)
RecursionLimit == 3
\* longest list of functions handed to generate_docstrings_in_batch
MaxDocs == 3
\* Route/Execute rounds of the agent loop explored
MaxRounds == 2

\* EMBEDDING_BATCH_SIZE (config.py:37 sets 100), scaled to the model's repositories
EMBEDDING_BATCH_SIZE == 2

-----------------------------------------------------------------------------
(* Configuration and module globals *)

\* config.py:39
ENABLE_AI_DOCSTRING_GENERATION == TRUE

\* vector_store_manager.py imports time, json, Pinecone, current_app and the two
\* langchain classes; the name genai used at lines 44, 113 and 151 is bound
\* nowhere in the module, so evaluating it raises NameError.
genai_bound == FALSE

Workers == {"w1", "w2"}
DataSourceIds == {"A", "B"}

None == "None"

-----------------------------------------------------------------------------
(* Repositories: what git.Repo.clone_from materialises for each identity.    *)
(* kind: "ok" parses; "syntax_error" makes ast.parse raise SyntaxError;      *)
(* "value_error" makes ast.parse raise another exception (null bytes).       *)

Fn(name, docstring) == [name |-> name, docstring |-> docstring]

RepoOf(ds) ==
    IF ds = "A"
    THEN << [path |-> "a.py", kind |-> "ok",
             functions |-> << Fn("f", "doc"), Fn("g", "") >>],
            [path |-> "bad.py", kind |-> "syntax_error",
             functions |-> << Fn("h", "") >>],
            [path |-> "c.py", kind |-> "ok",
             functions |-> << Fn("f", "") >>] >>
    ELSE IF ds = "B"
    THEN << [path |-> "a.py", kind |-> "ok",
             functions |-> << Fn("f", "doc") >>],
            [path |-> "n.py", kind |-> "value_error",
             functions |-> << Fn("g", "doc") >>],
            [path |-> "e.py", kind |-> "ok", functions |-> << >>] >>
    \* "S": three files that parse, five functions, two without docstring
    ELSE << [path |-> "x.py", kind |-> "ok",
             functions |-> << Fn("f1", "doc"), Fn("f2", "") >>],
            [path |-> "y.py", kind |-> "ok",
             functions |-> << Fn("f3", "doc"), Fn("f4", "") >>],
            [path |-> "z.py", kind |-> "ok",
             functions |-> << Fn("f5", "doc") >>] >>

\* os.path.join(REPO_CLONE_PATH, data_source_id)
local_repo_path(ds) == <<"repos_cloned", ds>>

-----------------------------------------------------------------------------
(* Sequence helpers *)

RECURSIVE SelectSeqBy(_, _)
SelectSeqBy(s, keep) ==
    IF s = << >> THEN << >>
    ELSE IF keep[Head(s)] THEN <<Head(s)>> \o SelectSeqBy(Tail(s), keep)
         ELSE SelectSeqBy(Tail(s), keep)

RECURSIVE Flatten(_)
Flatten(ss) == IF ss = << >> THEN << >> ELSE Head(ss) \o Flatten(Tail(ss))

Range(s) == {s[i] : i \in DOMAIN s}

Min(a, b) == IF a < b THEN a ELSE b

-----------------------------------------------------------------------------
(* Structural index: KnowledgeGraphManager *)

FileNode(ds, path) == [label |-> "File", path |-> path, dataSourceId |-> ds]

FunctionNode(ds, path, name) ==
    [label |-> "Function", name |-> name, file_path |-> path, dataSourceId |-> ds]

DefinesEdge(ds, path, name) ==
    [from |-> FileNode(ds, path), to |-> FunctionNode(ds, path, name)]

\* Cypher MERGE of a pattern: create one instance when none matches
MergeAlwaysCreates(bag, x) == bag (+) SetToBag({x})
Merge(bag, x) == IF BagIn(x, bag) THEN bag ELSE bag (+) SetToBag({x})

\* add_file_node: MERGE (f:File {path, dataSourceId})
add_file_node(nodes, ds, path) == Merge(nodes, FileNode(ds, path))

\* add_function_node: MERGE file, MERGE func, MERGE (file)-[:DEFINES]->(func)
add_function_node_nodes(nodes, ds, path, name) ==
    Merge(Merge(nodes, FileNode(ds, path)), FunctionNode(ds, path, name))

add_function_node_edges(edges, ds, path, name) ==
    Merge(edges, DefinesEdge(ds, path, name))

\* restriction of a bag to the elements satisfying keep
BagFilter(bag, kept) == [x \in kept |-> bag[x]]

kg_clear_nodes_keeps(nodes, ds) == nodes
kg_clear_nodes_all(nodes, ds) == EmptyBag
kg_clear_nodes_functions_only(nodes, ds) ==
    BagFilter(nodes, {n \in BagToSet(nodes) :
                         n.dataSourceId # ds \/ n.label # "Function"})
\* clear_data_source_data: MATCH (n {dataSourceId}) DETACH DELETE n
kg_clear_nodes(nodes, ds) ==
    BagFilter(nodes, {n \in BagToSet(nodes) : n.dataSourceId # ds})

kg_clear_edges(edges, ds) ==
    BagFilter(edges, {e \in BagToSet(edges) :
                         e.from.dataSourceId # ds /\ e.to.dataSourceId # ds})

\* KnowledgeGraphManager.close: "if self._driver: self.close()". The driver
\* object is truthy, so the method calls itself until the interpreter raises
\* RecursionError; it never returns normally.
RECURSIVE kg_close(_, _)
kg_close(driver, depth) ==
    IF driver
    THEN IF depth >= RecursionLimit THEN "RecursionError"
         ELSE kg_close(driver, depth + 1)
    ELSE "closed"

-----------------------------------------------------------------------------
(* Semantic index: VectorStoreManager *)

\* f"{data_source_id}:{metadata['file_path']}:{metadata['function_name']}"
vector_id(ds, meta) == <<ds, ":", meta.file_path, ":", meta.function_name>>

UpsertAppends(records, new) == records \cup new
\* index.upsert: a record with an id already in the namespace is overwritten
Upsert(records, new) ==
    {r \in records : \A n \in new : n.id # r.id} \cup new

\* the vectors_to_upsert of one batch (lines 162-171)
vectors_to_upsert(ds, batch_texts, batch_metadatas) ==
    {[id |-> vector_id(ds, batch_metadatas[j]),
      values |-> batch_texts[j],
      metadata |-> batch_metadatas[j]] : j \in DOMAIN batch_texts}

\* text_chunks[i : i + batch_size] with i counted from 1
Slice(s, i, n) == SubSeq(s, i, Min(Len(s), i + n - 1))


-----------------------------------------------------------------------------
(* Documentation synthesizer: generate_docstrings_in_batch                   *)
(* response is what the completion service would answer:                     *)
(*   [kind |-> "api_error"]            the call raises                       *)
(*   [kind |-> "bad_json"]             json.loads raises                     *)
(*   [kind |-> "not_list"]             valid JSON that is no array           *)
(*   [kind |-> "list", items |-> seq]  a JSON array                          *)

PlaceholdersOnce(functions_to_document, text) == <<text>>
\* ["<text>" for _ in functions_to_document] (lines 126 and 130)
Placeholders(functions_to_document, text) ==
    [i \in DOMAIN functions_to_document |-> text]

generate_docstrings_in_batch(functions_to_document, response) ==
    IF functions_to_document = << >> THEN << >>
    ELSE IF ~genai_bound \/ response.kind \in {"api_error", "bad_json"}
    THEN Placeholders(functions_to_document,
                      "# AI-generated docstring failed due to an API error.")
    ELSE IF response.kind = "list"
            /\ Len(response.items) = Len(functions_to_document)
    THEN response.items
    ELSE Placeholders(functions_to_document,
                      "# AI-generated docstring failed: Invalid format.")

-----------------------------------------------------------------------------
(* Structural extractor: parse_python_file and the walk of lines 48-64 *)

\* parse_python_file: None on SyntaxError, raises on any other parser error
parse_python_file(file) ==
    IF file.kind = "ok" THEN [result |-> "parsed", functions |-> file.functions]
    ELSE IF file.kind = "syntax_error" THEN [result |-> "None", functions |-> << >>]
    ELSE [result |-> "raised", functions |-> << >>]

\* the entities one file contributes to all_functions_data (lines 55-64)
FileEntities(file) ==
    LET parsed_data == parse_python_file(file)
    IN IF parsed_data.result = "parsed"
       THEN [i \in DOMAIN parsed_data.functions |->
                [file_path |-> file.path,
                 name |-> parsed_data.functions[i].name,
                 docstring |-> parsed_data.functions[i].docstring]]
       ELSE << >>

\* all_functions_data after the walk of a snapshot
all_functions_data(snapshot) ==
    Flatten([i \in DOMAIN snapshot |-> FileEntities(snapshot[i])])

\* lines 69-73: the list handed to generate_docstrings_in_batch (empty: the
\* call is not made)
synthesizer_request(all_functions) ==
    IF ENABLE_AI_DOCSTRING_GENERATION
    THEN SelectSeqBy(all_functions,
                     [f \in Range(all_functions) |-> f.docstring = ""])
    ELSE << >>

final_functions_list_only_generated(all_functions, response) ==
    LET missing == synthesizer_request(all_functions)
        generated_docs == generate_docstrings_in_batch(missing, response)
    IN [i \in DOMAIN missing |-> [missing[i] EXCEPT !.docstring = generated_docs[i]]]
\* lines 68-77: partition, synthesize, merge positionally, concatenate
final_functions_list(all_functions, response) ==
    LET hasDoc == [f \in Range(all_functions) |-> f.docstring # ""]
        noDoc == [f \in Range(all_functions) |-> f.docstring = ""]
        functions_with_docstrings == SelectSeqBy(all_functions, hasDoc)
        functions_without_docstrings == SelectSeqBy(all_functions, noDoc)
        generated_docs ==
            generate_docstrings_in_batch(functions_without_docstrings, response)
        documented ==
            IF ENABLE_AI_DOCSTRING_GENERATION /\ functions_without_docstrings # << >>
            THEN [i \in DOMAIN functions_without_docstrings |->
                    [functions_without_docstrings[i]
                        EXCEPT !.docstring = generated_docs[i]]]
            ELSE functions_without_docstrings
    IN functions_with_docstrings \o documented

\* lines 87-94
text_chunk(func_data) ==
    <<"Function", func_data.name, "File", func_data.file_path,
      "Documentation", func_data.docstring>>

metadata_of(func_data) ==
    [file_path |-> func_data.file_path, function_name |-> func_data.name]


-----------------------------------------------------------------------------
(* State of one ingestion run and what is recorded when it exits *)

HasRecord(ds) == ds \in DOMAIN status /\ status[ds] \notin {"absent", "deleted"}

\* the records of one identity in the two indexes
ImageOf(nodes, edges, vectors, ds) ==
    [nodes |-> BagFilter(nodes, {n \in BagToSet(nodes) : n.dataSourceId = ds}),
     edges |-> BagFilter(edges, {e \in BagToSet(edges) : e.from.dataSourceId = ds}),
     ids |-> {r.id : r \in vectors[ds]}]

EmptyImage == [nodes |-> EmptyBag, edges |-> EmptyBag, ids |-> {}]

NoExit == [status |-> None, last_indexed_at |-> 0, dir |-> FALSE, image |-> EmptyImage]

IdleRun ==
    [pc |-> "idle", id |-> 0, ds |-> None, kg_manager |-> FALSE,
     all |-> << >>, funcs |-> << >>, k |-> 0,
     pending |-> None, outcome |-> None, exc |-> None,
     phase |-> None, cloned |-> FALSE, finalized |-> FALSE, svcOk |-> {},
     swallowed |-> FALSE, vec_clear_failed |-> FALSE, slept |-> FALSE,
     requests |-> << >>, generated |-> << >>,
     hasPrev |-> FALSE, prev0 |-> EmptyImage, exit |-> NoExit]

\* callers of read_file_from_repo that may overlap
Callers == {"c1", "c2"}

\* the locals of one read_file_from_repo call; created: the call's clone made
\* temp_clone_path; exists_at_exit: the path existed when the call returned
IdleCall ==
    [pc |-> "idle", ds |-> None, file_path |-> None, created |-> FALSE,
     failed_at |-> None, result |-> None, exists_at_exit |-> FALSE]

\* an exception leaves the try block for the handler of line 111
Raise(r, phase, exc) == [r EXCEPT !.pc = "except", !.phase = phase, !.exc = exc]

Idle(w) == run[w].pc \in {"idle", "done"}

Init ==
    /\ status = [ds \in DataSourceIds |-> "absent"]
    /\ last_indexed_at = [ds \in DataSourceIds |-> 0]
    /\ queue = << >>
    /\ kgNodes = EmptyBag
    /\ kgEdges = EmptyBag
    /\ vec = [ds \in DataSourceIds |-> {}]
    /\ fs = {}
    /\ run = [w \in Workers |-> IdleRun]
    /\ nruns = 0
    /\ prev = [ds \in DataSourceIds |-> [has |-> FALSE, image |-> EmptyImage]]
    /\ answer = [data_source_id |-> None, kind |-> None, tags |-> {}]
    /\ doc = [functions |-> << >>, response |-> [kind |-> "api_error", items |-> << >>],
              called |-> FALSE, output |-> << >>]
    /\ agent = [node |-> "idle", data_source_id |-> None, session |-> None,
                messages |-> << >>, rounds |-> 0,
                raised |-> None, sent |-> << >>,
                invoked |-> [called |-> FALSE, name |-> None,
                             data_source_id |-> None, model_id |-> None]]
    /\ reader = [c \in Callers |-> IdleCall]

-----------------------------------------------------------------------------
(* Routes that trigger ingestion (data_source_routes.py) *)

CanEnqueue == nruns + Len(queue) < MaxRuns

\* connect_data_source: a new record with status 'pending', then .delay(id)
connect_data_source(ds) ==
    /\ status[ds] = "absent"
    /\ CanEnqueue
    /\ status' = [status EXCEPT ![ds] = "pending"]
    /\ queue' = Append(queue, ds)
    /\ UNCHANGED <<last_indexed_at, kgNodes, kgEdges, vec, fs, run, nruns, prev,
                   answer, doc, agent, reader>>

\* reindex_data_source: 404 without a record; else 'indexing', then .delay(id)
reindex_data_source(ds) ==
    /\ HasRecord(ds)
    /\ CanEnqueue
    /\ status' = [status EXCEPT ![ds] = "indexing"]
    /\ queue' = Append(queue, ds)
    /\ UNCHANGED <<last_indexed_at, kgNodes, kgEdges, vec, fs, run, nruns, prev,
                   answer, doc, agent, reader>>

\* sync_data_source: the same steps as reindex
sync_data_source(ds) ==
    /\ HasRecord(ds)
    /\ CanEnqueue
    /\ status' = [status EXCEPT ![ds] = "indexing"]
    /\ queue' = Append(queue, ds)
    /\ UNCHANGED <<last_indexed_at, kgNodes, kgEdges, vec, fs, run, nruns, prev,
                   answer, doc, agent, reader>>

\* delete_data_source: the record is deleted; indexes and clone are left (TODO)
delete_data_source(ds) ==
    /\ HasRecord(ds)
    /\ status' = [status EXCEPT ![ds] = "deleted"]
    /\ last_indexed_at' = [last_indexed_at EXCEPT ![ds] = 0]
    /\ UNCHANGED <<queue, kgNodes, kgEdges, vec, fs, run, nruns, prev,
                   answer, doc, agent, reader>>

-----------------------------------------------------------------------------
(* process_data_source_for_ai, one action per step (repo_ingestion_tasks.py) *)

\* Start without the test of line 17: the task enters the pipeline
StartWithoutLookup(w) ==
    /\ Idle(w)
    /\ queue # << >>
    /\ nruns < MaxRuns
    /\ run' = [run EXCEPT ![w] =
                 [IdleRun EXCEPT !.pc = "setup", !.id = nruns + 1, !.ds = Head(queue),
                                 !.hasPrev = prev[Head(queue)].has,
                                 !.prev0 = prev[Head(queue)].image]]
    /\ queue' = Tail(queue)
    /\ nruns' = nruns + 1
    /\ UNCHANGED <<status, last_indexed_at, kgNodes, kgEdges, vec, fs, prev,
                   answer, doc, agent, reader>>

\* lines 14-23: the worker takes the task; lookup of the data source
Start(w) ==
    /\ Idle(w)
    /\ queue # << >>
    /\ nruns < MaxRuns
    /\ LET ds == Head(queue)
       IN run' = [run EXCEPT ![w] =
                    IF HasRecord(ds)
                    THEN [IdleRun EXCEPT !.pc = "setup", !.id = nruns + 1, !.ds = ds,
                                         !.hasPrev = prev[ds].has,
                                         !.prev0 = prev[ds].image]
                    ELSE [IdleRun EXCEPT !.pc = "done", !.id = nruns + 1, !.ds = ds,
                                         !.outcome = "failed"]]
    /\ queue' = Tail(queue)
    /\ nruns' = nruns + 1
    /\ UNCHANGED <<status, last_indexed_at, kgNodes, kgEdges, vec, fs, prev,
                   answer, doc, agent, reader>>

\* lines 27-28: the two managers are constructed; either constructor may raise
Setup(w) ==
    /\ run[w].pc = "setup"
    /\ \E res \in {"ok", "kg_raises", "vector_raises"} :
         run' = [run EXCEPT ![w] =
                   IF res = "ok" THEN [@ EXCEPT !.pc = "clear_kg", !.kg_manager = TRUE]
                   ELSE IF res = "kg_raises" THEN Raise(@, "setup", "ValueError")
                   ELSE Raise([@ EXCEPT !.kg_manager = TRUE], "setup", "ValueError")]
    /\ UNCHANGED <<status, last_indexed_at, queue, kgNodes, kgEdges, vec, fs, nruns,
                   prev, answer, doc, agent, reader>>

\* line 30: kg_manager.clear_data_source_data; a driver error propagates
ClearKG(w) ==
    /\ run[w].pc = "clear_kg"
    /\ \E ok \in BOOLEAN :
         IF ok
         THEN /\ kgNodes' = kg_clear_nodes(kgNodes, run[w].ds)
              /\ kgEdges' = kg_clear_edges(kgEdges, run[w].ds)
              /\ run' = [run EXCEPT ![w].pc = "clear_vec"]
         ELSE /\ run' = [run EXCEPT ![w] = Raise(@, "clear", "Neo4jError")]
              /\ UNCHANGED <<kgNodes, kgEdges>>
    /\ UNCHANGED <<status, last_indexed_at, queue, vec, fs, nruns, prev,
                   answer, doc, agent, reader>>

\* line 31: vector_store_manager.clear_data_source_data; lines 185-190 catch
\* every exception of get_index and delete and only log it
ClearVec(w) ==
    /\ run[w].pc = "clear_vec"
    /\ \E ok \in BOOLEAN :
         /\ vec' = IF ok THEN [vec EXCEPT ![run[w].ds] = {}] ELSE vec
         /\ run' = [run EXCEPT ![w].pc = "fetch",
                               ![w].swallowed = @ \/ ~ok,
                               ![w].vec_clear_failed = ~ok]
    /\ UNCHANGED <<status, last_indexed_at, queue, kgNodes, kgEdges, fs, nruns,
                   prev, answer, doc, agent, reader>>

\* lines 35-40: repo_full_name is read (present for every modelled source) and
\* a stale clone at local_repo_path is removed
FetchRm(w) ==
    /\ run[w].pc = "fetch"
    /\ fs' = fs \ {local_repo_path(run[w].ds)}
    /\ run' = [run EXCEPT ![w].pc = "clone"]
    /\ UNCHANGED <<status, last_indexed_at, queue, kgNodes, kgEdges, vec, nruns,
                   prev, answer, doc, agent, reader>>

\* line 42: git.Repo.clone_from; fails on bad credentials or a missing
\* repository, and when the destination already exists
Clone(w) ==
    /\ run[w].pc = "clone"
    /\ \E ok \in BOOLEAN :
         IF ok /\ local_repo_path(run[w].ds) \notin fs
         THEN /\ fs' = fs \cup {local_repo_path(run[w].ds)}
              /\ run' = [run EXCEPT ![w].pc = "extract", ![w].cloned = TRUE]
         ELSE /\ run' = [run EXCEPT ![w] = Raise(@, "fetch", "GitCommandError")]
              /\ UNCHANGED fs
    /\ UNCHANGED <<status, last_indexed_at, queue, kgNodes, kgEdges, vec, nruns,
                   prev, answer, doc, agent, reader>>

\* lines 47-65: walk the snapshot and parse every .py file
Extract(w) ==
    /\ run[w].pc = "extract"
    /\ run' = [run EXCEPT ![w].pc = "synthesize",
                          ![w].all =
                              IF local_repo_path(run[w].ds) \in fs
                              THEN all_functions_data(RepoOf(run[w].ds))
                              ELSE << >>]
    /\ UNCHANGED <<status, last_indexed_at, queue, kgNodes, kgEdges, vec, fs, nruns,
                   prev, answer, doc, agent, reader>>

Responses(n) ==
    {[kind |-> k, items |-> << >>] : k \in {"api_error", "bad_json", "not_list"}}
    \cup {[kind |-> "list", items |-> [i \in 1..m |-> "generated"]] : m \in {n, n + 1}}

\* lines 68-77: synthesize the missing docstrings
Synthesize(w) ==
    /\ run[w].pc = "synthesize"
    /\ \E response \in Responses(Len(run[w].all)) :
         LET final == final_functions_list(run[w].all, response)
             \* requests: the argument of each generate_docstrings_in_batch
             \* call of line 73; generated: what the call returned
             missing == synthesizer_request(run[w].all)
         IN run' = [run EXCEPT ![w].funcs = final,
                               ![w].requests =
                                   IF missing = << >> THEN << >> ELSE <<missing>>,
                               ![w].generated =
                                   generate_docstrings_in_batch(missing, response),
                               ![w].k = 1,
                               ![w].pc = IF final = << >> THEN "finalize"
                                         ELSE "populate"]
    /\ UNCHANGED <<status, last_indexed_at, queue, kgNodes, kgEdges, vec, fs, nruns,
                   prev, answer, doc, agent, reader>>

\* lines 83-94, one function per step: add_file_node, then add_function_node;
\* either query may raise
Populate(w) ==
    /\ run[w].pc = "populate"
    /\ LET r == run[w]
           f == r.funcs[r.k]
       IN \E res \in {"ok", "file_raises", "function_raises"} :
            /\ kgNodes' =
                 IF res = "ok"
                 THEN add_function_node_nodes(
                          add_file_node(kgNodes, r.ds, f.file_path),
                          r.ds, f.file_path, f.name)
                 ELSE IF res = "function_raises"
                 THEN add_file_node(kgNodes, r.ds, f.file_path)
                 ELSE kgNodes
            /\ kgEdges' =
                 IF res = "ok"
                 THEN add_function_node_edges(kgEdges, r.ds, f.file_path, f.name)
                 ELSE kgEdges
            /\ run' = [run EXCEPT ![w] =
                         IF res # "ok" THEN Raise(@, "populate", "Neo4jError")
                         ELSE IF r.k < Len(r.funcs) THEN [@ EXCEPT !.k = r.k + 1]
                         ELSE [@ EXCEPT !.pc = "embed_index", !.k = 1]]
    /\ UNCHANGED <<status, last_indexed_at, queue, vec, fs, nruns, prev,
                   answer, doc, agent, reader>>

\* line 137: get_index, outside any try of generate_and_store_embeddings
EmbedIndex(w) ==
    /\ run[w].pc = "embed_index"
    /\ \E ok \in BOOLEAN :
         run' = [run EXCEPT ![w] =
                   IF ok THEN [@ EXCEPT !.pc = "embed_batch"]
                   ELSE Raise(@, "populate", "PineconeError")]
    /\ UNCHANGED <<status, last_indexed_at, queue, kgNodes, kgEdges, vec, fs, nruns,
                   prev, answer, doc, agent, reader>>

\* lines 143-179, one batch per step. service: whether the embedding service
\* would answer this batch; the call itself needs the name genai.
EmbedBatch(w) ==
    /\ run[w].pc = "embed_batch"
    /\ LET r == run[w]
           text_chunks == [i \in DOMAIN r.funcs |-> text_chunk(r.funcs[i])]
           metadatas == [i \in DOMAIN r.funcs |-> metadata_of(r.funcs[i])]
           batch_texts == Slice(text_chunks, r.k, EMBEDDING_BATCH_SIZE)
           batch_metadatas == Slice(metadatas, r.k, EMBEDDING_BATCH_SIZE)
           next == r.k + EMBEDDING_BATCH_SIZE
           Advance(q) == IF next <= Len(r.funcs) THEN [q EXCEPT !.k = next]
                         ELSE [q EXCEPT !.pc = "finalize"]
       IN \E service \in BOOLEAN, upsertOk \in BOOLEAN :
            LET embedded == genai_bound /\ service
                \* slept: time.sleep (line 179) ran after this batch's call;
                \* the continue of line 159 skips it
                noted == [r EXCEPT !.svcOk = IF service THEN @ \cup {r.k} ELSE @,
                                   !.swallowed = @ \/ ~service,
                                   !.slept = embedded /\ upsertOk]
            IN IF ~embedded
               THEN /\ run' = [run EXCEPT ![w] = Advance(noted)]
                    /\ UNCHANGED vec
               ELSE IF upsertOk
               THEN /\ vec' = [vec EXCEPT ![r.ds] =
                                 Upsert(@, vectors_to_upsert(r.ds, batch_texts,
                                                             batch_metadatas))]
                    /\ run' = [run EXCEPT ![w] = Advance(noted)]
               ELSE /\ run' = [run EXCEPT ![w] =
                                 Raise(noted, "populate", "PineconeError")]
                    /\ UNCHANGED vec
    /\ UNCHANGED <<status, last_indexed_at, queue, kgNodes, kgEdges, fs, nruns,
                   prev, answer, doc, agent, reader>>

\* Finalize moved before the population of the indexes
FinalizeBeforePopulate(w) ==
    /\ run[w].pc \in {"populate", "finalize"}
    /\ HasRecord(run[w].ds)
    /\ status' = [status EXCEPT ![run[w].ds] = "indexed"]
    /\ last_indexed_at' = [last_indexed_at EXCEPT ![run[w].ds] = run[w].id]
    /\ run' = [run EXCEPT ![w].pc = "finally", ![w].finalized = TRUE,
                          ![w].pending = "completed"]
    /\ UNCHANGED <<queue, kgNodes, kgEdges, vec, fs, nruns, prev, answer, doc, agent,
                   reader>>

\* Finalize that leaves a 'failed' written meanwhile in place
FinalizeKeepsFailed(w) ==
    /\ run[w].pc = "finalize"
    /\ HasRecord(run[w].ds)
    /\ status' = IF status[run[w].ds] = "failed" THEN status
                 ELSE [status EXCEPT ![run[w].ds] = "indexed"]
    /\ last_indexed_at' = [last_indexed_at EXCEPT ![run[w].ds] = run[w].id]
    /\ run' = [run EXCEPT ![w].pc = "finally", ![w].finalized = TRUE,
                          ![w].pending = "completed"]
    /\ UNCHANGED <<queue, kgNodes, kgEdges, vec, fs, nruns, prev, answer, doc, agent,
                   reader>>

\* lines 104-109: status 'indexed', timestamp, commit; the commit may raise,
\* and raises when the record was deleted meanwhile (the UPDATE matches no row)
Finalize(w) ==
    /\ run[w].pc = "finalize"
    /\ \E ok \in BOOLEAN :
         IF ok /\ HasRecord(run[w].ds)
         THEN /\ status' = [status EXCEPT ![run[w].ds] = "indexed"]
              /\ last_indexed_at' = [last_indexed_at EXCEPT ![run[w].ds] = run[w].id]
              /\ run' = [run EXCEPT ![w].pc = "finally", ![w].finalized = TRUE,
                                    ![w].pending = "completed"]
         ELSE /\ run' = [run EXCEPT ![w] = Raise(@, "finalize", "OperationalError")]
              /\ UNCHANGED <<status, last_indexed_at>>
    /\ UNCHANGED <<queue, kgNodes, kgEdges, vec, fs, nruns, prev, answer, doc, agent, reader>>

\* lines 111-118: the handler marks the record 'failed' when it still exists
\* and re-raises; the handler's own lookup and commit are taken to succeed
Except(w) ==
    /\ run[w].pc = "except"
    /\ status' = IF HasRecord(run[w].ds)
                 THEN [status EXCEPT ![run[w].ds] = "failed"]
                 ELSE status
    /\ run' = [run EXCEPT ![w].pc = "finally", ![w].pending = "raise"]
    /\ UNCHANGED <<last_indexed_at, queue, kgNodes, kgEdges, vec, fs, nruns, prev,
                   answer, doc, agent, reader>>

\* lines 119-124: kg_manager.close(), then removal of the clone. An exception
\* of close() leaves the finally block before the removal and replaces the
\* pending return value or exception.
Finally(w) ==
    /\ run[w].pc = "finally"
    /\ LET r == run[w]
           closed == IF r.kg_manager THEN kg_close(TRUE, 0) ELSE "skipped"
           fs2 == IF closed = "RecursionError" THEN fs
                  ELSE fs \ {local_repo_path(r.ds)}
           image == ImageOf(kgNodes, kgEdges, vec, r.ds)
       IN /\ fs' = fs2
          /\ run' = [run EXCEPT ![w] =
                       [r EXCEPT !.pc = "done",
                                 !.pending = None,
                                 !.outcome = IF closed = "RecursionError" THEN "raised"
                                             ELSE IF r.pending = "completed"
                                             THEN "completed" ELSE "raised",
                                 !.exc = IF closed = "RecursionError"
                                         THEN "RecursionError" ELSE r.exc,
                                 !.exit = [status |-> status[r.ds],
                                           last_indexed_at |-> last_indexed_at[r.ds],
                                           dir |-> local_repo_path(r.ds) \in fs2,
                                           image |-> image]]]
          /\ prev' = IF r.finalized
                     THEN [prev EXCEPT ![r.ds] = [has |-> TRUE, image |-> image]]
                     ELSE prev
    /\ UNCHANGED <<status, last_indexed_at, queue, kgNodes, kgEdges, vec, nruns,
                   answer, doc, agent, reader>>

-----------------------------------------------------------------------------
(* KnowledgeGraphManager.query_graph (kg_manager.py lines 65-90)             *)
(* CYPHER_GENERATION_PROMPT asks the translating model to filter on the      *)
(* dataSourceId; the Cypher text the model returns is executed as it is.     *)
(* A generated query either filters on some dataSourceId or on none.         *)

GeneratedFilters == DataSourceIds \cup {"no_filter"}

\* the nodes a generated query with the given filter matches
Matched(nodes, filter) ==
    {n \in BagToSet(nodes) : filter = "no_filter" \/ n.dataSourceId = filter}

query_graph(data_source_id) ==
    /\ \E filter \in GeneratedFilters, ok \in BOOLEAN :
         answer' = IF ok
                   THEN [data_source_id |-> data_source_id, kind |-> "answer",
                         tags |-> {n.dataSourceId : n \in Matched(kgNodes, filter)}]
                   ELSE [data_source_id |-> data_source_id, kind |-> "error",
                         tags |-> {}]
    /\ UNCHANGED <<status, last_indexed_at, queue, kgNodes, kgEdges, vec, fs, run,
                   nruns, prev, doc, agent, reader>>

-----------------------------------------------------------------------------
(* Ingestion with one worker: tasks run one after another, and the routes    *)
(* are called while no task is queued or running.                            *)

SeqWorkers == {"w1"}

Quiescent == queue = << >> /\ \A w \in Workers : Idle(w)

RunStep(w) ==
    \/ Setup(w) \/ ClearKG(w) \/ ClearVec(w) \/ FetchRm(w) \/ Clone(w)
    \/ Extract(w) \/ Synthesize(w) \/ Populate(w) \/ EmbedIndex(w)
    \/ EmbedBatch(w) \/ Finalize(w) \/ Except(w) \/ Finally(w)

Next ==
    \/ \E ds \in DataSourceIds :
         \/ Quiescent /\ connect_data_source(ds)
         \/ Quiescent /\ reindex_data_source(ds)
         \/ Quiescent /\ sync_data_source(ds)
         \/ (\A w \in Workers : Idle(w)) /\ delete_data_source(ds)
         \/ query_graph(ds)
    \/ \E w \in SeqWorkers : Start(w) \/ RunStep(w)

Spec == Init /\ [][Next]_vars


\* a worker task, once started, runs its function body to the end
FairSpec == Spec /\ \A w \in SeqWorkers : WF_vars(RunStep(w))

-----------------------------------------------------------------------------
(* Properties of the ingestion run *)

Exited(w) == run[w].pc = "done" /\ run[w].outcome # "failed"

\* the run met no failure of its environment, raised or swallowed
Clean(w) == run[w].finalized /\ ~run[w].swallowed

\* the Function nodes and vector ids the parseable files of a snapshot yield
ExpectedFunctionNodes(ds) ==
    {FunctionNode(ds, f.file_path, f.name) : f \in Range(all_functions_data(RepoOf(ds)))}

ExpectedIds(ds) ==
    {vector_id(ds, metadata_of(f)) : f \in Range(all_functions_data(RepoOf(ds)))}

UnparseablePaths(ds) ==
    {RepoOf(ds)[i].path : i \in {j \in DOMAIN RepoOf(ds) : RepoOf(ds)[j].kind # "ok"}}

NoDuplicates(image) ==
    /\ \A n \in BagToSet(image.nodes) : CopiesIn(n, image.nodes) = 1
    /\ \A e \in BagToSet(image.edges) : CopiesIn(e, image.edges) = 1

\* C1: when a run that got past the data-source lookup has exited, its
\* snapshot directory REPO_CLONE_PATH/<data_source_id> no longer exists.
C1_SnapshotRemovedAtExit ==
    \A w \in Workers : Exited(w) => ~run[w].exit.dir

\* C2: a run whose phases all succeed ends with status 'indexed', the
\* completion timestamp of this run, and the 'completed' result returned to
\* the job queue.
C2_SuccessDeliversCompleted ==
    \A w \in Workers :
        run[w].pc = "done" /\ Clean(w) =>
            /\ run[w].exit.status = "indexed"
            /\ run[w].exit.last_indexed_at = run[w].id
            /\ run[w].outcome = "completed"

\* C3: an error raised in the fetch, extract, synthesize, populate or finalize
\* phase sets the status to 'failed' and is itself the error the job queue
\* receives; the run neither ends 'indexed' nor returns normally.
C3_PhaseErrorFailsAndIsReRaised ==
    \A w \in Workers :
        run[w].pc = "done" /\ run[w].phase \in {"fetch", "populate", "finalize"} =>
            /\ run[w].exit.status = "failed"
            /\ run[w].outcome = "raised"
            /\ run[w].exc \in {"GitCommandError", "Neo4jError", "PineconeError",
                               "OperationalError"}

\* C4: a second finalized run on the unchanged repository leaves the File
\* nodes, Function nodes, DEFINES edges and semantic record ids of the
\* identity as they were after the earlier finalized run, each node and edge
\* once.
C4_ReingestionIdempotent ==
    \A w \in Workers :
        run[w].pc = "done" /\ run[w].finalized /\ run[w].hasPrev =>
            /\ run[w].exit.image = run[w].prev0
            /\ NoDuplicates(run[w].exit.image)

C4_Witness ==
    \E w \in Workers :
        /\ run[w].pc = "done" /\ run[w].finalized /\ run[w].hasPrev
        /\ run[w].ds = "A"
        /\ Cardinality(BagToSet(run[w].exit.image.nodes)) = 5
        /\ Cardinality(BagToSet(run[w].exit.image.edges)) = 3

\* C5: a structural query issued with repo_id = A never returns an entity
\* tagged with another repo_id, whatever query text the model generated.
C5_QueryReturnsOnlyOwnRepo ==
    answer.kind = "answer" => answer.tags \subseteq {answer.data_source_id}

\* C7: a file that fails to parse does not abort the job: the run ends
\* 'indexed', every entity of the parseable files is in the structural and in
\* the semantic index, and the failing file contributes no entity.
C7_ParseFailureTolerated ==
    \A w \in Workers :
        run[w].pc = "done" /\ Clean(w) /\ UnparseablePaths(run[w].ds) # {} =>
            /\ run[w].exit.status = "indexed"
            /\ \A n \in ExpectedFunctionNodes(run[w].ds) :
                   BagIn(n, run[w].exit.image.nodes)
            /\ ExpectedIds(run[w].ds) \subseteq run[w].exit.image.ids
            /\ \A n \in BagToSet(run[w].exit.image.nodes) :
                   /\ n.label = "File" => n.path \notin UnparseablePaths(run[w].ds)
                   /\ n.label = "Function" =>
                          n.file_path \notin UnparseablePaths(run[w].ds)

\* the ids of the batch that starts at position k of the run's chunks
BatchIds(r, k) ==
    {vector_id(r.ds, metadata_of(r.funcs[j])) :
        j \in k .. Min(Len(r.funcs), k + EMBEDDING_BATCH_SIZE - 1)}

\* C9: when generate_and_store_embeddings has returned, every batch whose
\* embedding call the service answered is in the index; a batch that failed
\* is skipped and the run proceeds to finalize.
C9_BatchFailureIsolated ==
    \A w \in Workers :
        run[w].pc = "finalize" /\ run[w].funcs # << >> =>
            \A k \in run[w].svcOk :
                BatchIds(run[w], k) \subseteq {r.id : r \in vec[run[w].ds]}

\* C10: a run whose fetch fails ends with status 'failed', and when it has
\* exited neither index holds a record of that repo_id; the status becomes
\* 'failed' eventually.
C10_FetchFailureAtExit ==
    \A w \in Workers :
        run[w].pc = "done" /\ run[w].phase = "fetch" =>
            /\ run[w].exit.status = "failed"
            /\ run[w].exit.image = EmptyImage

C10_FetchFailureLeadsToFailed ==
    \A w \in SeqWorkers : \A ds \in DataSourceIds :
        (run[w].pc = "except" /\ run[w].phase = "fetch" /\ run[w].ds = ds)
            ~> (status[ds] = "failed")

\* C10: both parts: the state at exit of a run whose fetch failed, and that
\* the status of its data source eventually becomes 'failed'.
C10_FetchFailure == []C10_FetchFailureAtExit /\ C10_FetchFailureLeadsToFailed

C10_Witness ==
    \E w \in Workers :
        /\ run[w].pc = "done" /\ run[w].phase = "fetch"
        /\ run[w].hasPrev
        /\ run[w].exit.status = "failed"


-----------------------------------------------------------------------------
(* Retrieval agent loop (ai_core/agent.py, ai_core/tools.py)                 *)
(* A message: type, content, the tool_calls list, and whether its            *)
(* additional_kwargs carry the key "tool_calls".                             *)

ToolNames == {"knowledge_graph_search", "semantic_code_search", "file_reader_tool"}

Message(type, content, tool_calls, kwargs_tool_calls) ==
    [type |-> type, content |-> content, tool_calls |-> tool_calls,
     kwargs_tool_calls |-> kwargs_tool_calls]

\* what the tool-selecting model may answer: no tool call or one, naming any
\* tool (or none that exists) with any data_source_id argument or none
ModelToolCalls ==
    {[name |-> n, args |-> [input |-> "q", data_source_id |-> d]] :
        n \in ToolNames \cup {"unknown_tool"}, d \in DataSourceIds \cup {None}}

ModelResponses ==
    {Message("ai", "text", calls, kw) :
        calls \in {<< >>} \cup {<<c>> : c \in ModelToolCalls}, kw \in BOOLEAN}

Last(s) == s[Len(s)]

\* lines 36-39: query = state["messages"][-1]; llm_with_tools.invoke([query])
router_input(messages) == <<Last(messages)>>

\* should_continue (lines 75-86)
should_continue(messages) ==
    IF Last(messages).kwargs_tool_calls THEN "use_tool" ELSE "END"

tool_args_keeps_model_id(args, state_data_source_id) ==
    IF args.data_source_id # None THEN args
    ELSE [args EXCEPT !.data_source_id = state_data_source_id]
\* lines 61-62: tool_args["data_source_id"] = state["data_source_id"]
tool_args(args, state_data_source_id) ==
    [args EXCEPT !.data_source_id = state_data_source_id]

\* tools.py: what selected_tool.invoke does. backend: whether the manager or
\* database the tool constructs first is reachable.
ToolInvoke(name, backend_up) ==
    IF name = "knowledge_graph_search"
    THEN IF ~backend_up
         THEN [raised |-> FALSE,
               content |-> "Error: Could not process the query for the knowledge graph."]
         ELSE IF kg_close(TRUE, 0) = "RecursionError"
         THEN [raised |-> TRUE, content |-> "RecursionError"]
         ELSE [raised |-> FALSE, content |-> "graph answer"]
    ELSE IF name = "semantic_code_search"
    THEN IF ~backend_up
         THEN [raised |-> FALSE,
               content |-> "Error: Could not process the query for semantic search."]
         ELSE IF ~genai_bound
         THEN [raised |-> FALSE,
               content |-> "There was an error while querying the vector database."]
         ELSE [raised |-> FALSE, content |-> "Found relevant functions"]
    ELSE IF ~backend_up
         THEN [raised |-> FALSE, content |-> "Error: Could not read the file"]
         ELSE [raised |-> FALSE, content |-> "file content"]

\* test_agent.py lines 42-48: the initial state of one conversation
AgentInvoke(ds) ==
    /\ agent.node = "idle"
    /\ agent' = [agent EXCEPT !.node = "router", !.data_source_id = ds,
                              !.session = ds,
                              !.messages = <<Message("human", "q", << >>, FALSE)>>]
    /\ UNCHANGED <<status, last_indexed_at, queue, kgNodes, kgEdges, vec, fs, run,
                   nruns, prev, answer, doc, reader>>

\* tool_router (lines 23-44) followed by the conditional edge of lines 102-109
tool_router ==
    /\ agent.node = "router"
    /\ agent.rounds <= MaxRounds
    /\ \E ai_response \in ModelResponses :
         LET messages == Append(agent.messages, ai_response)
         IN agent' = [agent EXCEPT
                        !.messages = messages,
                        !.sent = router_input(agent.messages),
                        !.rounds = @ + 1,
                        !.node = IF should_continue(messages) = "use_tool"
                                 THEN "tool_executor" ELSE "END"]
    /\ UNCHANGED <<status, last_indexed_at, queue, kgNodes, kgEdges, vec, fs, run,
                   nruns, prev, answer, doc, reader>>

\* tool_executor (lines 47-70) followed by the edge back to the router
tool_executor ==
    /\ agent.node = "tool_executor"
    /\ LET last_message == Last(agent.messages)
       IN IF last_message.tool_calls = << >>
             \/ last_message.tool_calls[1].name \notin ToolNames
          THEN \* IndexError of tool_calls[0], KeyError of the tool lookup
               agent' = [agent EXCEPT !.node = "crashed",
                                      !.raised = IF last_message.tool_calls = << >>
                                                 THEN "IndexError" ELSE "KeyError"]
          ELSE LET tool_call == last_message.tool_calls[1]
                   args == tool_args(tool_call.args, agent.data_source_id)
               IN \E backend_up \in BOOLEAN :
                    LET response == ToolInvoke(tool_call.name, backend_up)
                        invoked == [called |-> TRUE, name |-> tool_call.name,
                                    data_source_id |-> args.data_source_id,
                                    model_id |-> tool_call.args.data_source_id]
                    IN agent' =
                         IF response.raised
                         THEN [agent EXCEPT !.node = "crashed", !.invoked = invoked,
                                            !.raised = response.content]
                         ELSE [agent EXCEPT
                                 !.node = "router",
                                 !.invoked = invoked,
                                 !.messages = Append(@, Message("tool", response.content,
                                                                << >>, FALSE))]
    /\ UNCHANGED <<status, last_indexed_at, queue, kgNodes, kgEdges, vec, fs, run,
                   nruns, prev, answer, doc, reader>>

NextAgent ==
    \/ \E ds \in DataSourceIds : AgentInvoke(ds)
    \/ tool_router
    \/ tool_executor

SpecAgent == Init /\ [][NextAgent]_vars

\* C6: in every Execute step the data_source_id handed to the tool is the one
\* of the session state, whatever the model put in the arguments, and the
\* session's data_source_id never changes during the loop.
C6_SessionIdInjected ==
    agent.node # "idle" =>
        /\ agent.data_source_id = agent.session
        /\ agent.invoked.called => agent.invoked.data_source_id = agent.session

C6_Witness ==
    /\ agent.invoked.called
    /\ agent.invoked.model_id \in DataSourceIds \ {agent.session}
    /\ agent.invoked.data_source_id = agent.session

-----------------------------------------------------------------------------
(* generate_docstrings_in_batch as a function of its input and of what the   *)
(* completion service answers                                                *)

EntityNames == {"f", "g"}

DocInputs ==
    UNION {[1..n -> {[name |-> x, source_code |-> "def"] : x \in EntityNames}] :
             n \in 0..MaxDocs}

DocResponses ==
    {[kind |-> k, items |-> << >>] : k \in {"api_error", "bad_json", "not_list"}}
    \cup {[kind |-> "list", items |-> [i \in 1..m |-> "generated"]] :
            m \in 0..(MaxDocs + 1)}

InitDoc ==
    /\ status = [ds \in DataSourceIds |-> "absent"]
    /\ last_indexed_at = [ds \in DataSourceIds |-> 0]
    /\ queue = << >>
    /\ kgNodes = EmptyBag
    /\ kgEdges = EmptyBag
    /\ vec = [ds \in DataSourceIds |-> {}]
    /\ fs = {}
    /\ run = [w \in Workers |-> IdleRun]
    /\ nruns = 0
    /\ prev = [ds \in DataSourceIds |-> [has |-> FALSE, image |-> EmptyImage]]
    /\ answer = [data_source_id |-> None, kind |-> None, tags |-> {}]
    /\ agent = [node |-> "idle", data_source_id |-> None, session |-> None,
                messages |-> << >>, rounds |-> 0,
                raised |-> None, sent |-> << >>,
                invoked |-> [called |-> FALSE, name |-> None,
                             data_source_id |-> None, model_id |-> None]]
    /\ reader = [c \in Callers |-> IdleCall]
    /\ \E functions \in DocInputs, response \in DocResponses :
         doc = [functions |-> functions, response |-> response,
                called |-> FALSE, output |-> << >>]

DocCall ==
    /\ ~doc.called
    /\ doc' = [doc EXCEPT !.called = TRUE,
                          !.output = generate_docstrings_in_batch(doc.functions,
                                                                  doc.response)]
    /\ UNCHANGED <<status, last_indexed_at, queue, kgNodes, kgEdges, vec, fs, run,
                   nruns, prev, answer, agent, reader>>

SpecDoc == InitDoc /\ [][DocCall]_vars

\* C8: generate_docstrings_in_batch called with N entities returns exactly N
\* items, whether the model answers a well-formed array of length N, malformed
\* output, an array of another length, or the call fails.
C8_LengthPreserved ==
    doc.called => Len(doc.output) = Len(doc.functions)

C8_Witness ==
    /\ doc.called
    /\ Len(doc.functions) = 2
    /\ doc.response.kind = "bad_json"
    /\ Len(doc.output) = 2

-----------------------------------------------------------------------------
(* Ingestion as deployed: the routes answer requests at any time, whatever   *)
(* is queued or running, and the broker hands a queued task to whichever     *)
(* worker is free.                                                           *)

NextConc ==
    \/ \E ds \in DataSourceIds :
         \/ connect_data_source(ds)
         \/ reindex_data_source(ds)
         \/ sync_data_source(ds)
         \/ delete_data_source(ds)
    \/ \E w \in Workers : Start(w) \/ RunStep(w)

SpecConc == Init /\ [][NextConc]_vars

\* ingestion tasks of one identity that are queued or running
InFlight(ds) ==
    Cardinality({i \in DOMAIN queue : queue[i] = ds})
    + Cardinality({w \in Workers : run[w].ds = ds /\ ~Idle(w)})

\* C11: at every moment at most one ingestion job is in flight (queued or
\* running) per repository identity, for any sequence of connect, reindex and
\* sync requests.
C11_SingleFlight ==
    \A ds \in DataSourceIds : InFlight(ds) <= 1

-----------------------------------------------------------------------------
(* read_file_from_repo (utils/file_reader.py), one action per step; calls    *)
(* of different callers may overlap.                                         *)

\* os.path.join(REPO_CLONE_PATH, f"temp_{data_source_id}") (line 22)
temp_clone_path(ds) == <<"repos_cloned", "temp_", ds>>

FilePaths == {"a.py", "missing.py"}

\* what f.read() returns for a file of the repository
file_content(ds, file_path) == <<"content of", ds, file_path>>

finally_cleanup_skips(dirs, path) == dirs
\* lines 53-54: shutil.rmtree(temp_clone_path)
finally_cleanup(dirs, path) == dirs \ {path}

\* the call returns: result, and whether its temporary path exists then
Return(call, result, dirs) ==
    [call EXCEPT !.pc = "done", !.result = result,
                 !.exists_at_exit = temp_clone_path(call.ds) \in dirs]

\* lines 13-22: lookup of the data source (every modelled source has a
\* repo_full_name)
read_file_from_repo(c, ds, file_path) ==
    /\ reader[c].pc \in {"idle", "done"}
    /\ LET call == [IdleCall EXCEPT !.ds = ds, !.file_path = file_path]
       IN reader' = [reader EXCEPT ![c] =
                       IF HasRecord(ds) THEN [call EXCEPT !.pc = "rm_stale"]
                       ELSE Return(call, "Error: Data source not found", fs)]
    /\ UNCHANGED <<status, last_indexed_at, queue, kgNodes, kgEdges, vec, fs, run,
                   nruns, prev, answer, doc, agent>>

\* lines 29-30: a folder already at the path is removed
ReaderRmStale(c) ==
    /\ reader[c].pc = "rm_stale"
    /\ fs' = fs \ {temp_clone_path(reader[c].ds)}
    /\ reader' = [reader EXCEPT ![c].pc = "clone"]
    /\ UNCHANGED <<status, last_indexed_at, queue, kgNodes, kgEdges, vec, run,
                   nruns, prev, answer, doc, agent>>

\* line 33: git.Repo.clone_from(..., depth=1). It fails on bad credentials or
\* when the destination exists; a failed clone may leave the directory behind
ReaderClone(c) ==
    /\ reader[c].pc = "clone"
    /\ LET path == temp_clone_path(reader[c].ds)
       IN \E ok \in BOOLEAN, left \in BOOLEAN :
            IF ok /\ path \notin fs
            THEN /\ fs' = fs \cup {path}
                 /\ reader' = [reader EXCEPT ![c].pc = "locate",
                                             ![c].created = TRUE]
            ELSE /\ fs' = IF left THEN fs \cup {path} ELSE fs
                 /\ reader' = [reader EXCEPT
                                 ![c].pc = "finally",
                                 ![c].created = left /\ path \notin fs,
                                 ![c].failed_at = "clone",
                                 ![c].result = "An error occurred while trying to read the file"]
    /\ UNCHANGED <<status, last_indexed_at, queue, kgNodes, kgEdges, vec, run,
                   nruns, prev, answer, doc, agent>>

\* lines 37-40: os.path.exists(full_file_path)
ReaderLocate(c) ==
    /\ reader[c].pc = "locate"
    /\ LET call == reader[c]
           found == /\ temp_clone_path(call.ds) \in fs
                    /\ \E i \in DOMAIN RepoOf(call.ds) :
                           RepoOf(call.ds)[i].path = call.file_path
       IN reader' = [reader EXCEPT ![c] =
                       IF found THEN [call EXCEPT !.pc = "read"]
                       ELSE [call EXCEPT !.pc = "finally",
                                         !.failed_at = "locate",
                                         !.result = "Error: File not found in the repository"]]
    /\ UNCHANGED <<status, last_indexed_at, queue, kgNodes, kgEdges, vec, fs, run,
                   nruns, prev, answer, doc, agent>>

\* lines 43-50: open and read; an error is caught and returned as text
ReaderRead(c) ==
    /\ reader[c].pc = "read"
    /\ LET call == reader[c]
       IN \E ok \in BOOLEAN :
            reader' = [reader EXCEPT ![c] =
                         IF ok /\ temp_clone_path(call.ds) \in fs
                         THEN [call EXCEPT !.pc = "finally",
                                           !.result = file_content(call.ds, call.file_path)]
                         ELSE [call EXCEPT !.pc = "finally",
                                           !.failed_at = "read",
                                           !.result = "An error occurred while trying to read the file"]]
    /\ UNCHANGED <<status, last_indexed_at, queue, kgNodes, kgEdges, vec, fs, run,
                   nruns, prev, answer, doc, agent>>

\* line 53: os.path.exists(temp_clone_path) in the finally block
ReaderFinallyCheck(c) ==
    /\ reader[c].pc = "finally"
    /\ reader' = [reader EXCEPT ![c] =
                    IF temp_clone_path(@.ds) \in fs THEN [@ EXCEPT !.pc = "finally_rm"]
                    ELSE Return(@, @.result, fs)]
    /\ UNCHANGED <<status, last_indexed_at, queue, kgNodes, kgEdges, vec, fs, run,
                   nruns, prev, answer, doc, agent>>

\* line 54: shutil.rmtree; on a path another call removed meanwhile it raises
\* FileNotFoundError, which leaves the function in place of the result
ReaderFinallyRm(c) ==
    /\ reader[c].pc = "finally_rm"
    /\ LET path == temp_clone_path(reader[c].ds)
           dirs == finally_cleanup(fs, path)
       IN /\ fs' = dirs
          /\ reader' = [reader EXCEPT ![c] =
                          Return(@, IF path \in fs THEN @.result
                                    ELSE "FileNotFoundError", dirs)]
    /\ UNCHANGED <<status, last_indexed_at, queue, kgNodes, kgEdges, vec, run,
                   nruns, prev, answer, doc, agent>>

ReaderStep(c) ==
    \/ ReaderRmStale(c) \/ ReaderClone(c) \/ ReaderLocate(c) \/ ReaderRead(c)
    \/ ReaderFinallyCheck(c) \/ ReaderFinallyRm(c)

NextReader ==
    \/ \E ds \in DataSourceIds : connect_data_source(ds)
    \/ \E c \in Callers :
         \/ \E ds \in DataSourceIds, file_path \in FilePaths :
              read_file_from_repo(c, ds, file_path)
         \/ ReaderStep(c)

SpecReader == Init /\ [][NextReader]_vars

\* C12: read_file_from_repo removes its temporary clone path before returning
\* on every exit path that created it (successful read, file not found, clone
\* failure, read failure): when the call has returned the path does not exist.
C12_TempPathRemoved ==
    \A c \in Callers :
        reader[c].pc = "done" /\ reader[c].created => ~reader[c].exists_at_exit

C12_Witness ==
    \E c \in Callers :
        /\ reader[c].pc = "done" /\ reader[c].created
        /\ reader[c].failed_at = "read"
        /\ ~reader[c].exists_at_exit

-----------------------------------------------------------------------------
(* One repository whose files all parse: the data source "S" has been        *)
(* connected (record 'pending', task queued) and may be re-indexed.          *)

ScenarioIds == {"S"}

InitScenario ==
    /\ status = [ds \in ScenarioIds |-> "pending"]
    /\ last_indexed_at = [ds \in ScenarioIds |-> 0]
    /\ queue = <<"S">>
    /\ kgNodes = EmptyBag
    /\ kgEdges = EmptyBag
    /\ vec = [ds \in ScenarioIds |-> {}]
    /\ fs = {}
    /\ run = [w \in Workers |-> IdleRun]
    /\ nruns = 0
    /\ prev = [ds \in ScenarioIds |-> [has |-> FALSE, image |-> EmptyImage]]
    /\ answer = [data_source_id |-> None, kind |-> None, tags |-> {}]
    /\ doc = [functions |-> << >>, response |-> [kind |-> "api_error", items |-> << >>],
              called |-> FALSE, output |-> << >>]
    /\ agent = [node |-> "idle", data_source_id |-> None, session |-> None,
                messages |-> << >>, rounds |-> 0,
                raised |-> None, sent |-> << >>,
                invoked |-> [called |-> FALSE, name |-> None,
                             data_source_id |-> None, model_id |-> None]]
    /\ reader = [c \in Callers |-> IdleCall]

NextScenario ==
    \/ \E ds \in ScenarioIds : Quiescent /\ reindex_data_source(ds)
    \/ \E w \in SeqWorkers : Start(w) \/ RunStep(w)

SpecScenario == InitScenario /\ [][NextScenario]_vars

\* the File nodes of the files of a snapshot that define a function
ExpectedFileNodes(ds) ==
    {FileNode(ds, f.file_path) : f \in Range(all_functions_data(RepoOf(ds)))}

\* C13: after a successful run on a snapshot whose files all parse and whose
\* functions have distinct (file_path, name) pairs, the structural index holds
\* exactly one File node per file that defines a function and one Function
\* node per function, and the semantic index one record per function: 3 File
\* nodes, 5 Function nodes and 5 semantic records for the repository "S".
C13_ScenarioCounts ==
    \A w \in Workers :
        run[w].pc = "done" /\ Clean(w) /\ UnparseablePaths(run[w].ds) = {} =>
            LET image == run[w].exit.image
                files == {n \in BagToSet(image.nodes) : n.label = "File"}
                functions == {n \in BagToSet(image.nodes) : n.label = "Function"}
            IN /\ run[w].exit.status = "indexed"
               /\ NoDuplicates(image)
               /\ files = ExpectedFileNodes(run[w].ds)
               /\ functions = ExpectedFunctionNodes(run[w].ds)
               /\ image.ids = ExpectedIds(run[w].ds)
               /\ Cardinality(files) = 3
               /\ Cardinality(functions) = 5
               /\ Cardinality(image.ids) = 5

-----------------------------------------------------------------------------
(* The Job Status as one run writes it *)

\* the step of worker w commits a status: line 107 (Finalize) or line 117
\* (the handler, when the record still exists)
WritesStatus(w) ==
    /\ run'[w].pc = "finally"
    /\ \/ run[w].pc = "finalize"
       \/ run[w].pc = "except" /\ HasRecord(run[w].ds)

\* C14: within one run the Job Status moves only from pending or indexing to
\* exactly one of indexed or failed: the run writes the status once, from
\* pending or indexing, and no other step of the run changes it.
C14_StatusMonotonicPerRun ==
    [][\A w \in Workers :
           run'[w] # run[w] /\ run[w].pc \notin {"idle", "done"} =>
               LET ds == run[w].ds
               IN IF WritesStatus(w)
                  THEN /\ status[ds] \in {"pending", "indexing"}
                       /\ status'[ds] \in {"indexed", "failed"}
                       /\ ~run[w].finalized /\ run[w].pending = None
                  ELSE status'[ds] = status[ds]]_vars

-----------------------------------------------------------------------------
(* Properties of the agent loop *)

\* C15: the loop terminates exactly when the Route step produces a message
\* without a tool call: Route goes to Execute if and only if its message
\* carries a tool call, Execute always goes back to Route, and the end state
\* is entered only from Route.
C15_EndsOnDirectAnswer ==
    /\ agent.node = "tool_executor" => Last(agent.messages).tool_calls # << >>
    /\ agent.node = "END" =>
           /\ Last(agent.messages).type = "ai"
           /\ Last(agent.messages).tool_calls = << >>
    /\ agent.node # "crashed"

\* C16: a failure inside a retrieval tool during an Execute step comes back
\* to the loop as a text observation; no exception leaves the tool: the only
\* exceptions of an Execute step are those of the executor's own lookups.
C16_ToolFailureIsObservation ==
    /\ agent.raised \in {None, "IndexError", "KeyError"}
    /\ agent.invoked.called /\ agent.node = "router" =>
           Last(agent.messages).type = "tool"

-----------------------------------------------------------------------------
(* Two repositories are connected and never re-indexed: one task per         *)
(* identity, taken by either worker, their steps interleaved at will.        *)

NextPair ==
    \/ \E ds \in DataSourceIds : connect_data_source(ds)
    \/ \E w \in Workers : Start(w) \/ RunStep(w)

SpecPair == Init /\ [][NextPair]_vars

\* the structural index a run of ds on its own builds from an empty index
RECURSIVE PopulateNodes(_, _, _)
PopulateNodes(nodes, ds, funcs) ==
    IF funcs = << >> THEN nodes
    ELSE PopulateNodes(
             add_function_node_nodes(add_file_node(nodes, ds, Head(funcs).file_path),
                                     ds, Head(funcs).file_path, Head(funcs).name),
             ds, Tail(funcs))

RECURSIVE PopulateEdges(_, _, _)
PopulateEdges(edges, ds, funcs) ==
    IF funcs = << >> THEN edges
    ELSE PopulateEdges(
             add_function_node_edges(edges, ds, Head(funcs).file_path, Head(funcs).name),
             ds, Tail(funcs))

\* the semantic records a run on its own leaves: those of the batches the
\* embedding call returned for
AloneIds(r) ==
    IF genai_bound THEN UNION {BatchIds(r, k) : k \in r.svcOk} ELSE {}

\* a step of a run of one identity leaves the records of every other identity
\* in both indexes as they are
C17_StepKeepsOthers ==
    \A w \in Workers :
        run'[w] # run[w] =>
            \A ds \in DataSourceIds \ {run'[w].ds} :
                ImageOf(kgNodes', kgEdges', vec', ds) = ImageOf(kgNodes, kgEdges, vec, ds)

\* a finalized run leaves for its identity what it builds when it runs alone
C17_FinalAsAlone ==
    \A w \in Workers :
        run[w].pc = "done" /\ run[w].finalized =>
            /\ run[w].exit.image.nodes = PopulateNodes(EmptyBag, run[w].ds, run[w].funcs)
            /\ run[w].exit.image.edges = PopulateEdges(EmptyBag, run[w].ds, run[w].funcs)
            /\ run[w].exit.image.ids = AloneIds(run[w])

\* C17: ingestion runs for two different identities never conflict: under
\* every interleaving of their steps the clears and writes of one run neither
\* remove nor add a structural or semantic record tagged with the other
\* identity, and the final index contents of an identity equal those of its
\* run alone.
C17_DifferentIdentitiesIsolated ==
    [][C17_StepKeepsOthers]_vars /\ []C17_FinalAsAlone

\* both runs are past their clears at once, and one has finalized while the
\* other holds records
C17_Witness ==
    /\ run["w1"].ds # run["w2"].ds
    /\ run["w1"].pc = "done" /\ run["w1"].finalized
    /\ run["w2"].pc = "populate" /\ run["w2"].k > 1
    /\ run["w1"].id > run["w2"].id
    /\ BagToSet(run["w1"].exit.image.nodes) # {}

-----------------------------------------------------------------------------
(* Re-indexing after the repository changed: data source A was ingested      *)
(* once, on a revision that also had old.py with the function old; that      *)
(* run finalized (its clone is still on disk, see Finally) and the file was   *)
(* then removed upstream.                                                    *)

PreviousRevision(ds) ==
    all_functions_data(RepoOf(ds))
        \o << [file_path |-> "old.py", name |-> "old", docstring |-> "doc"] >>

PreviousImage(ds) ==
    [nodes |-> PopulateNodes(EmptyBag, ds, PreviousRevision(ds)),
     edges |-> PopulateEdges(EmptyBag, ds, PreviousRevision(ds)),
     ids |-> {}]

InitRerun ==
    /\ status = [ds \in DataSourceIds |-> IF ds = "A" THEN "indexed" ELSE "absent"]
    /\ last_indexed_at = [ds \in DataSourceIds |-> IF ds = "A" THEN 1 ELSE 0]
    /\ queue = << >>
    /\ kgNodes = PreviousImage("A").nodes
    /\ kgEdges = PreviousImage("A").edges
    /\ vec = [ds \in DataSourceIds |-> {}]
    /\ fs = {local_repo_path("A")}
    /\ run = [w \in Workers |-> IdleRun]
    /\ nruns = 1
    /\ prev = [ds \in DataSourceIds |->
                 IF ds = "A" THEN [has |-> TRUE, image |-> PreviousImage("A")]
                 ELSE [has |-> FALSE, image |-> EmptyImage]]
    /\ answer = [data_source_id |-> None, kind |-> None, tags |-> {}]
    /\ doc = [functions |-> << >>, response |-> [kind |-> "api_error", items |-> << >>],
              called |-> FALSE, output |-> << >>]
    /\ agent = [node |-> "idle", data_source_id |-> None, session |-> None,
                messages |-> << >>, rounds |-> 0,
                raised |-> None, sent |-> << >>,
                invoked |-> [called |-> FALSE, name |-> None,
                             data_source_id |-> None, model_id |-> None]]
    /\ reader = [c \in Callers |-> IdleCall]

NextRerun ==
    \/ \E ds \in DataSourceIds :
         \/ Quiescent /\ reindex_data_source(ds)
         \/ Quiescent /\ sync_data_source(ds)
    \/ \E w \in SeqWorkers : Start(w) \/ RunStep(w)

SpecRerun == InitRerun /\ [][NextRerun]_vars

\* C18: after a re-run that ends with status 'indexed', both indexes hold for
\* that identity only records written by that run: no record of an earlier
\* run that the current snapshot does not produce survives, also when the
\* clear of the semantic index met an error.
C18_NoStaleRecords ==
    \A w \in Workers :
        run[w].pc = "done" /\ run[w].finalized /\ run[w].hasPrev =>
            /\ BagToSet(run[w].exit.image.nodes)
                   \subseteq BagToSet(PopulateNodes(EmptyBag, run[w].ds, run[w].funcs))
            /\ BagToSet(run[w].exit.image.edges)
                   \subseteq BagToSet(PopulateEdges(EmptyBag, run[w].ds, run[w].funcs))
            /\ run[w].exit.image.ids \subseteq AloneIds(run[w])

C18_Witness ==
    \E w \in Workers :
        /\ run[w].pc = "done" /\ run[w].finalized /\ run[w].hasPrev
        /\ run[w].vec_clear_failed
        /\ run[w].exit.status = "indexed"
        /\ BagIn(FileNode("A", "old.py"), run[w].prev0.nodes)
        /\ ~BagIn(FileNode("A", "old.py"), run[w].exit.image.nodes)

-----------------------------------------------------------------------------
(* Order of the steps inside one run *)

\* C19: in generate_and_store_embeddings a delay step occurs between every
\* two successive embedding-service calls, also when the earlier of the two
\* failed: when the loop is about to call for a batch after the first, the
\* delay has run since the call before.
C19_DelayBetweenCalls ==
    \A w \in Workers :
        run[w].pc = "embed_batch" /\ run[w].k > 1 => run[w].slept

\* position of a step in the body of process_data_source_for_ai
PhaseRank(pc) ==
    CASE pc = "setup" -> 0
      [] pc = "clear_kg" -> 1
      [] pc = "clear_vec" -> 2
      [] pc = "fetch" -> 3
      [] pc = "clone" -> 4
      [] pc = "extract" -> 5
      [] pc = "synthesize" -> 6
      [] pc = "populate" -> 7
      [] pc = "embed_index" -> 8
      [] pc = "embed_batch" -> 9
      [] pc = "finalize" -> 10
      [] OTHER -> 11

\* the step adds a record of ds to one of the indexes
GainsRecord(ds) ==
    \/ \E n \in BagToSet(kgNodes') :
           n.dataSourceId = ds /\ CopiesIn(n, kgNodes') > CopiesIn(n, kgNodes)
    \/ \E e \in BagToSet(kgEdges') :
           e.from.dataSourceId = ds /\ CopiesIn(e, kgEdges') > CopiesIn(e, kgEdges)
    \/ ~(vec'[ds] \subseteq vec[ds])

\* a step of a run never returns to an earlier phase, writes to an index only
\* in the populate phase, after both clears, and writes 'indexed' only from
\* the finalize step, with every function of the run in the structural index
C20_PhaseOrderStep ==
    \A w \in Workers :
        run'[w] # run[w] /\ run[w].pc \notin {"idle", "done"} =>
            /\ PhaseRank(run'[w].pc) >= PhaseRank(run[w].pc)
            /\ GainsRecord(run[w].ds) =>
                   /\ run[w].pc \in {"populate", "embed_batch"}
                   /\ PhaseRank(run[w].pc) > PhaseRank("clear_vec")
            /\ run'[w].finalized /\ ~run[w].finalized =>
                   /\ run[w].pc = "finalize"
                   /\ status'[run[w].ds] = "indexed"
                   /\ \A i \in DOMAIN run[w].funcs :
                          BagIn(FunctionNode(run[w].ds, run[w].funcs[i].file_path,
                                             run[w].funcs[i].name), kgNodes)
            /\ status'[run[w].ds] = "indexed" /\ status[run[w].ds] # "indexed" =>
                   run[w].pc = "finalize"

\* C20: within one job the phases run strictly in the order clear, fetch,
\* extract, synthesize, populate, finalize: no index write of the run precedes
\* the completion of both clears, and the status 'indexed' is written only
\* after every structural upsert and the semantic bulk write have returned.
C20_PhasesInOrder == [][C20_PhaseOrderStep]_vars

C20_Witness ==
    \E w \in Workers :
        /\ run[w].pc = "done" /\ run[w].finalized
        /\ Len(run[w].funcs) = 3
        /\ run[w].exit.status = "indexed"
        /\ BagIn(FunctionNode("A", "c.py", "f"), run[w].exit.image.nodes)

-----------------------------------------------------------------------------
(* What the router hands to the tool-selecting model *)

\* C21: on each Route step the tool-selecting model is given the current
\* conversation: every message so far, the user's question and all
\* observations of earlier Execute steps included.
C21_RouterGetsConversation ==
    agent.node \in {"tool_executor", "END"} =>
        agent.sent = SubSeq(agent.messages, 1, Len(agent.messages) - 1)

-----------------------------------------------------------------------------
(* Unreachable backends *)

\* C22: if the structural or the semantic backend is unreachable for the whole
\* of a phase that uses it (clear or populate), the run ends with status
\* 'failed' and never with status 'indexed'.
C22_BackendDownFailsRun ==
    \A w \in Workers :
        run[w].pc = "done"
        /\ (run[w].vec_clear_failed \/ run[w].phase \in {"clear", "populate"}) =>
            /\ run[w].exit.status = "failed"
            /\ ~run[w].finalized

-----------------------------------------------------------------------------
(* Overlapping runs *)

\* the run of worker w has cloned its snapshot and not yet left the function
OwnsSnapshot(w) == run[w].cloned /\ run[w].pc \notin {"idle", "done"}

\* C23: the snapshot directory of a run is owned exclusively by that run:
\* while a run is between its fetch phase and its cleanup, no step of another
\* ingestion run removes or replaces that directory.
C23_SnapshotOwnedByRun ==
    [][\A w \in Workers : \A v \in Workers \ {w} :
           /\ run'[w] # run[w]
           /\ OwnsSnapshot(v)
           /\ local_repo_path(run[v].ds) \in fs
           => local_repo_path(run[v].ds) \in fs']_vars

\* One repository, connected and re-indexed at any time: its tasks may
\* overlap on the two workers.
OverlapIds == {"B"}

NextOverlap ==
    \/ \E ds \in OverlapIds :
         \/ connect_data_source(ds)
         \/ reindex_data_source(ds)
         \/ sync_data_source(ds)
    \/ \E w \in Workers : Start(w) \/ RunStep(w)

SpecOverlap == Init /\ [][NextOverlap]_vars

\* C24: when two runs for the same identity overlap, both clear and then
\* populate, and the Job Status is the one written last: a run that reaches
\* its finalize step writes 'indexed' and a run that reaches its handler
\* writes 'failed', whatever the other run did to the status or to the
\* indexes in between.
C24_LastWriterWins ==
    [][\A w \in Workers :
           run'[w] # run[w] /\ run[w].pc \notin {"idle", "done"} =>
               /\ PhaseRank(run'[w].pc) >= PhaseRank(run[w].pc)
               /\ WritesStatus(w) =>
                      status'[run[w].ds] =
                          IF run[w].pc = "finalize" THEN "indexed" ELSE "failed"]_vars

\* both runs of the identity have exited, the status is the 'indexed' of the
\* run that finalized last, and the structural index lacks the function of
\* the snapshot: the other run cleared after this run's writes
C24_Witness ==
    /\ run["w1"].ds = run["w2"].ds
    /\ run["w1"].pc = "done" /\ run["w2"].pc = "done"
    /\ run["w1"].finalized /\ run["w1"].funcs # << >>
    /\ ~run["w2"].finalized /\ run["w2"].phase = "fetch"
    /\ run["w1"].exit.status = "indexed"
    /\ status[run["w1"].ds] = "indexed"
    /\ ExpectedFunctionNodes(run["w1"].ds) # {}
    /\ \A n \in ExpectedFunctionNodes(run["w1"].ds) : ~BagIn(n, kgNodes)

-----------------------------------------------------------------------------
(* Overlapping file reads *)

InRepo(ds, file_path) ==
    \E i \in DOMAIN RepoOf(ds) : RepoOf(ds)[i].path = file_path

\* C25: each file read uses its own temporary path, so two overlapping
\* read_file_from_repo calls for the same repository do not interfere: no
\* step of one call removes the clone the other is reading, and a call for a
\* file of the repository is not answered 'not found' or cut short by the
\* other call's cleanup.
C25_ReadsDoNotInterfere ==
    /\ \A c \in Callers :
           reader[c].pc \in {"locate", "read"} /\ reader[c].created =>
               temp_clone_path(reader[c].ds) \in fs
    /\ \A c \in Callers :
           reader[c].pc = "done" /\ reader[c].created =>
               /\ reader[c].failed_at = "locate" =>
                      ~InRepo(reader[c].ds, reader[c].file_path)
               /\ reader[c].result # "FileNotFoundError"

-----------------------------------------------------------------------------
(* The synthesize phase *)

WithDocstring(all_functions) ==
    SelectSeqBy(all_functions, [f \in Range(all_functions) |-> f.docstring # ""])

WithoutDocstring(all_functions) ==
    SelectSeqBy(all_functions, [f \in Range(all_functions) |-> f.docstring = ""])

\* the run of worker w is past its synthesize phase
Synthesized(w) ==
    run[w].pc \in {"populate", "embed_index", "embed_batch", "finalize"}

\* C26: the synthesize phase sends only the entities with an empty docstring
\* to the synthesizer, in one request; afterwards the i-th of them carries the
\* i-th returned string, every entity that had a docstring keeps it, and the
\* number of entities passed to the populate phase equals the number
\* extracted.
C26_SynthesizeFrame ==
    \A w \in Workers :
        Synthesized(w) =>
            LET kept == WithDocstring(run[w].all)
                missing == WithoutDocstring(run[w].all)
            IN /\ Len(run[w].requests) <= 1
               /\ \A i \in DOMAIN run[w].requests : run[w].requests[i] = missing
               /\ missing # << >> => Len(run[w].requests) = 1
               /\ Len(run[w].funcs) = Len(run[w].all)
               /\ SubSeq(run[w].funcs, 1, Len(kept)) = kept
               /\ Len(run[w].generated) = Len(missing)
               /\ \A i \in DOMAIN missing :
                      run[w].funcs[Len(kept) + i] =
                          [missing[i] EXCEPT !.docstring = run[w].generated[i]]

C26_Witness ==
    \E w \in Workers :
        /\ Synthesized(w)
        /\ Len(WithDocstring(run[w].all)) = 1
        /\ Len(WithoutDocstring(run[w].all)) = 2
        /\ Len(run[w].funcs) = 3
        /\ run[w].funcs[1].docstring = "doc"
        /\ run[w].funcs[3].docstring = run[w].generated[2]

-----------------------------------------------------------------------------
(* Lines 161-175 of generate_and_store_embeddings as a function of the       *)
(* batch and of the embeddings returned for it: the records are built and    *)
(* upserted into the namespace of the data source. Each step is the bulk     *)
(* write of one batch; nruns counts the writes.                              *)

UpsertPairs ==
    {[file_path |-> p, function_name |-> n] : p \in {"a.py", "c.py"}, n \in {"f", "g"}}

Embeddings == {"e1", "e2"}

\* batch_metadatas: up to EMBEDDING_BATCH_SIZE entities, each once
UpsertBatches ==
    {s \in UNION {[1..n -> UpsertPairs] : n \in 1..EMBEDDING_BATCH_SIZE} :
        \A i, j \in DOMAIN s : i # j => s[i] # s[j]}

store_batch(ds, batch_metadatas, embeddings) ==
    /\ nruns < MaxRuns
    /\ vec' = [vec EXCEPT ![ds] =
                 Upsert(@, vectors_to_upsert(ds, embeddings, batch_metadatas))]
    /\ nruns' = nruns + 1
    /\ UNCHANGED <<status, last_indexed_at, queue, kgNodes, kgEdges, fs, run, prev,
                   answer, doc, agent, reader>>

NextUpsert ==
    \E ds \in DataSourceIds, batch_metadatas \in UpsertBatches :
        \E embeddings \in [DOMAIN batch_metadatas -> Embeddings] :
            store_batch(ds, batch_metadatas, embeddings)

SpecUpsert == Init /\ [][NextUpsert]_vars

-----------------------------------------------------------------------------
(* The conversation across Route and Execute *)

\* C28: each Execute step invokes exactly one tool, the first tool call of
\* the router's last message, and appends exactly one observation message;
\* all earlier messages are left unchanged and in order, in Route steps too.
C28_ExecuteAppendsOneObservation ==
    [][/\ agent.node = "tool_executor" /\ agent' # agent =>
              /\ Last(agent.messages).tool_calls # << >>
              /\ agent'.invoked.called
              /\ agent'.invoked.name = Last(agent.messages).tool_calls[1].name
              /\ Len(agent'.messages) = Len(agent.messages) + 1
              /\ SubSeq(agent'.messages, 1, Len(agent.messages)) = agent.messages
              /\ Last(agent'.messages).type = "tool"
       /\ agent.node = "router" /\ agent' # agent =>
              /\ Len(agent'.messages) = Len(agent.messages) + 1
              /\ SubSeq(agent'.messages, 1, Len(agent.messages)) = agent.messages]_vars

-----------------------------------------------------------------------------
(* The two indexes against each other *)

\* C29: after a single run, every semantic record of the identity names a
\* (file_path, function_name) pair for which a Function node with a DEFINES
\* edge from its File node exists in the structural index.
C29_SemanticWithinStructural ==
    \A w \in Workers :
        run[w].pc = "done" /\ run[w].outcome # "failed" =>
            \A r \in vec[run[w].ds] :
                /\ BagIn(FunctionNode(run[w].ds, r.metadata.file_path,
                                      r.metadata.function_name), kgNodes)
                /\ BagIn(DefinesEdge(run[w].ds, r.metadata.file_path,
                                     r.metadata.function_name), kgEdges)

-----------------------------------------------------------------------------
(* A task whose data source has no record *)

\* C30: process_data_source_for_ai invoked for an identity without a data
\* source record returns a 'failed' result without raising and leaves the
\* structural index, the semantic index, the filesystem and every Job Status
\* unchanged; the run takes no further step.
C30_NoRecordNoEffect ==
    [][\A w \in Workers :
           /\ run'[w] # run[w]
           /\ \/ Idle(w) /\ queue # << >> /\ ~HasRecord(Head(queue))
              \/ run[w].pc = "done" /\ run[w].outcome = "failed" /\ run'[w].id = run[w].id
           => /\ run[w].pc \in {"idle", "done"}
              /\ run'[w].pc = "done"
              /\ run'[w].outcome = "failed"
              /\ run'[w].exc = None
              /\ UNCHANGED <<status, last_indexed_at, kgNodes, kgEdges, vec, fs>>]_vars

C30_Witness ==
    \E w \in Workers :
        /\ run[w].pc = "done" /\ run[w].outcome = "failed"
        /\ run[w].id = 2
        /\ status[run[w].ds] = "deleted"
        /\ BagToSet(kgNodes) # {}

=============================================================================
